---------------------------- MODULE Spec2Model ----------------------------
(***************************************************************************)
(* Model of hotspot/__init__.py: Gaussian-kernel neighbor weights, the     *)
(* neighbor-graph builder, the sparse assembler, both Getis-Ord forms and  *)
(* the p-value conversion.                                                 *)
(*                                                                         *)
(* Numbers.  numpy float64 values are modelled exactly, without rounding:  *)
(*   - a "float"  is NaN, +Inf/-Inf or a rational n/d in lowest terms;     *)
(*   - a "root"   is NaN, +Inf/-Inf or s*sqrt(n/d) with s in {-1,0,1}; it  *)
(*     is the type of everything that went through a square root (s, the   *)
(*     denominators and the G_i values).                                   *)
(* Both forms are canonical, so equality of records is numeric equality.   *)
(* Division by zero, 0/0, Inf-Inf, 0*Inf and the square root of a negative *)
(* number follow IEEE-754 as numpy applies it (a warning, then NaN/Inf).   *)
(* Rounding, overflow, underflow and the sign of zero are not modelled.    *)
(*                                                                         *)
(* Arrays are sequences (a matrix is a sequence of rows).  Index values    *)
(* stored in arrays keep Python's 0-based positions; Seq access adds 1.    *)
(***************************************************************************)
EXTENDS Integers, Sequences, FiniteSets, TLC

(* ------------------------------ floats ---------------------------------- *)

Abs(a) == IF a < 0 THEN -a ELSE a

Sign(a) == IF a < 0 THEN -1 ELSE IF a = 0 THEN 0 ELSE 1

RECURSIVE GCD(_, _)
GCD(a, b) == IF b = 0 THEN a ELSE GCD(b, a % b)

NaN == [k |-> "nan", n |-> 0, d |-> 0]

Inf(s) == [k |-> "inf", n |-> s, d |-> 0]

\* the rational n/d (d # 0) in lowest terms with a positive denominator
Fin(n, d) ==
    LET g == GCD(Abs(n), Abs(d))
        s == IF d < 0 THEN -1 ELSE 1
    IN  [k |-> "fin", n |-> (s * n) \div g, d |-> (s * d) \div g]

Int2F(i) == Fin(i, 1)

Zero == Int2F(0)

One == Int2F(1)

IsFinite(a) == a.k = "fin"

FSign(a) == IF a.k = "nan" THEN 0 ELSE Sign(a.n)

FNeg(a) == IF a.k = "nan" THEN NaN
           ELSE IF a.k = "inf" THEN Inf(-a.n)
           ELSE Fin(-a.n, a.d)

FAdd(a, b) ==
    IF a.k = "nan" \/ b.k = "nan" THEN NaN
    ELSE IF a.k = "inf" /\ b.k = "inf" THEN (IF a.n = b.n THEN a ELSE NaN)
    ELSE IF a.k = "inf" THEN a
    ELSE IF b.k = "inf" THEN b
    ELSE Fin(a.n * b.d + b.n * a.d, a.d * b.d)

FSub(a, b) == FAdd(a, FNeg(b))

FMul(a, b) ==
    IF a.k = "nan" \/ b.k = "nan" THEN NaN
    ELSE IF a.k = "inf" \/ b.k = "inf"
         THEN (IF FSign(a) * FSign(b) = 0 THEN NaN ELSE Inf(FSign(a) * FSign(b)))
    ELSE Fin(a.n * b.n, a.d * b.d)

FDiv(a, b) ==
    IF a.k = "nan" \/ b.k = "nan" THEN NaN
    ELSE IF a.k = "inf" THEN (IF b.k = "inf" THEN NaN
                              ELSE Inf(a.n * (IF FSign(b) < 0 THEN -1 ELSE 1)))
    ELSE IF b.k = "inf" THEN Zero
    ELSE IF b.n = 0 THEN (IF a.n = 0 THEN NaN ELSE Inf(Sign(a.n)))
    ELSE Fin(a.n * b.d, a.d * b.n)

RECURSIVE FSum(_)
FSum(v) == IF v = <<>> THEN Zero ELSE FAdd(Head(v), FSum(Tail(v)))

\* numpy's ==: NaN equals nothing
FEq(a, b) == a.k # "nan" /\ b.k # "nan" /\ a = b

(* ------------------------------- roots ---------------------------------- *)

RNaN == [k |-> "nan", s |-> 0, n |-> 0, d |-> 0]

RInf(s) == [k |-> "inf", s |-> s, n |-> 0, d |-> 0]

\* s * sqrt(n/d), n >= 0, d > 0
RFin(s, n, d) ==
    IF s = 0 \/ n = 0 THEN [k |-> "fin", s |-> 0, n |-> 0, d |-> 1]
    ELSE LET g == GCD(n, d) IN [k |-> "fin", s |-> s, n |-> n \div g, d |-> d \div g]

ROne == RFin(1, 1, 1)

\* a float seen as a root: a = sign(a) * sqrt(a^2)
F2R(a) == IF a.k = "nan" THEN RNaN
          ELSE IF a.k = "inf" THEN RInf(a.n)
          ELSE RFin(Sign(a.n), a.n * a.n, a.d * a.d)

\* a ** (1/2)
Sqrt(a) == IF a.k = "nan" THEN RNaN
           ELSE IF a.k = "inf" THEN (IF a.n > 0 THEN RInf(1) ELSE RNaN)
           ELSE IF a.n < 0 THEN RNaN
           ELSE RFin(Sign(a.n), a.n, a.d)

RMul(a, b) ==
    IF a.k = "nan" \/ b.k = "nan" THEN RNaN
    ELSE IF a.k = "inf" \/ b.k = "inf"
         THEN (IF a.s * b.s = 0 THEN RNaN ELSE RInf(a.s * b.s))
    ELSE RFin(a.s * b.s, a.n * b.n, a.d * b.d)

RDiv(a, b) ==
    IF a.k = "nan" \/ b.k = "nan" THEN RNaN
    ELSE IF a.k = "inf" THEN (IF b.k = "inf" THEN RNaN
                              ELSE RInf(a.s * (IF b.s < 0 THEN -1 ELSE 1)))
    ELSE IF b.k = "inf" THEN RFin(0, 0, 1)
    ELSE IF b.s = 0 THEN (IF a.s = 0 THEN RNaN ELSE RInf(a.s))
    ELSE RFin(a.s * b.s, a.n * b.d, a.d * b.n)

REq(a, b) == a.k # "nan" /\ b.k # "nan" /\ a = b

RAbs(a) == IF a.k = "nan" THEN a ELSE [a EXCEPT !.s = Abs(a.s)]


(* ------------------------------ bounds ---------------------------------- *)

\* rows of the distance matrix handed to compute_weights directly
NRows == 2

\* widest neighbor table (n_neighbors); the narrowest has one column
NNeighbors == 2

\* distances handed to compute_weights are integers 0..MaxDist
MaxDist == 2

\* neighborhood_factor ranges over a/b, a in 1..MaxFactor, b in 1..2
MaxFactor == 3

\* samples (cells) in the Getis-Ord calls and in the point sets
NCells == 3

\* the variable takes the values 0..MaxVal
MaxVal == 1

\* table weights handed to the Getis-Ord calls are integers 0..MaxWeight
MaxWeight == 2

\* neighborhood_factor=3, the default of neighbors_and_weights and compute_weights
DefaultFactor == 3

(* ------------------------------ arrays ---------------------------------- *)

\* no array / no result
None == <<>>

\* no DataFrame
NoFrame == [index |-> <<>>, columns |-> <<>>, values |-> <<>>]

\* A vector / a matrix held as an array of values, each element computed once
\* (numpy arrays hold values; a TLA+ function expression is re-evaluated on
\* every application unless it is made into a tuple).
Vec(v) == v \o <<>>

Mat(m) == [i \in 1..Len(m) |-> Vec(m[i])] \o <<>>

Range(a, b) == Vec([i \in 1..(b - a) |-> a + i - 1])

\* a DataFrame: row labels, column labels, the array of values
Frame(index, columns, values) == [index |-> index, columns |-> columns, values |-> values]

\* pandas.RangeIndex(n): the labels 0..n-1
Labels(n) == Range(0, n)

\* ndarray.shape of a matrix with at least one row
Shape0(m) == Len(m)

Shape1(m) == IF Len(m) = 0 THEN 0 ELSE Len(m[1])

\* a[:, j] for a 0-based column j
Col(m, j) ==
    Vec([i \in 1..Len(m) |-> m[i][j + 1]])

\* Python's rule for one integer index into an axis of length len
InBounds(i, len) == -len <= i /\ i < len

PyIndex(i, len) == IF i < 0 THEN i + len ELSE i

\* math.ceil of a finite float
Ceil(a) == -((-a.n) \div a.d)

\* numpy.exp on the arguments compute_weights produces (NaN, -Inf or a
\* rational t <= 0).  exp(NaN) = NaN and exp(-Inf) = 0 are exact.  For a
\* finite t the irrational value is replaced by the rational 1/(1 - t), that
\* is 1/exp(-t) with exp(-t) cut after its linear term: it keeps exp(0) = 1,
\* 0 < exp(t) <= 1 and monotonicity, which is all the kernel relies on.
np_exp(a) ==
    IF a.k = "nan" THEN NaN
    ELSE IF a.k = "inf" THEN (IF a.n < 0 THEN Zero ELSE Inf(1))
    ELSE FDiv(One, FSub(One, a))

(* --------------------------- compute_weights ---------------------------- *)

\* radius_ii with the quotient rounded down instead of up
radius_ii_floor(distances, neighborhood_factor) ==
    LET q == FDiv(Int2F(Shape1(distances)), neighborhood_factor) IN q.n \div q.d

\* radius_ii = ceil(distances.shape[1] / neighborhood_factor)
radius_ii(distances, neighborhood_factor) ==
    Ceil(FDiv(Int2F(Shape1(distances)), neighborhood_factor))

\* weights = np.exp(-1 * distances**2 / sigma**2), sigma broadcast along rows
kernel(distances, sigma) ==
    Mat([i \in 1..Len(distances) |->
            [r \in 1..Len(distances[i]) |->
                np_exp(FDiv(FMul(Int2F(-1), FMul(distances[i][r], distances[i][r])),
                            FMul(sigma[i], sigma[i])))]])

\* wnorm = weights.sum(axis=1, keepdims=True)
row_sums(weights) ==
    Vec([i \in 1..Len(weights) |-> FSum(weights[i])])

\* wnorm[wnorm == 0] = 1.0, in place on the array wnorm names
wnorm_guard(wnorm) ==
    Vec([i \in 1..Len(wnorm) |-> IF FEq(wnorm[i], Zero) THEN One ELSE wnorm[i]])

\* weights / wnorm
normalize(weights, wnorm) ==
    Mat([i \in 1..Len(weights) |->
            [r \in 1..Len(weights[i]) |-> FDiv(weights[i][r], wnorm[i])]])

\* Memory.  mem maps the name of an array object to its contents.  A call
\* starts from the caller's arrays; an array the call creates gets a name of
\* its own, and an in-place statement rewrites the object its target names.
Store(mem, buf, val) == (buf :> val) @@ mem

\* the object the local name wnorm is bound to (line 102: the new array sum() returns)
wnorm_buffer == "wnorm"

\* The whole call; the result is [err, val, mem].
compute_weights(distances, neighborhood_factor) ==
    LET mem == "distances" :> distances
        rii == radius_ii(distances, neighborhood_factor)
    IN  IF ~InBounds(rii - 1, Shape1(distances))
        THEN [err |-> "IndexError", val |-> None, mem |-> mem]
        ELSE
        LET m0 == Store(mem, "sigma", Col(distances, PyIndex(rii - 1, Shape1(distances))))
            m1 == Store(m0, "weights", kernel(distances, m0["sigma"]))
            m2 == Store(m1, wnorm_buffer, row_sums(m1["weights"]))
            m3 == Store(m2, wnorm_buffer, wnorm_guard(m2[wnorm_buffer]))
            m4 == Store(m3, "weights / wnorm", normalize(m3["weights"], m3[wnorm_buffer]))
        IN  [err |-> "none", val |-> m4["weights / wnorm"], mem |-> m4]

(* ------------------------------ _to_sparse ------------------------------ *)

RECURSIVE Ravel(_)
Ravel(m) == IF m = <<>> THEN <<>> ELSE Head(m) \o Ravel(Tail(m))

\* row_idxs with the sample numbers repeated as a block (np.tile along the
\* other axis) instead of each one N_NEIGHBORS times
row_idxs_cycled(N_CELLS, N_NEIGHBORS) ==
    Ravel([r \in 1..N_NEIGHBORS |-> [i \in 1..N_CELLS |-> i - 1]])

\* np.tile(np.arange(N_CELLS).reshape((-1, 1)), reps=(1, N_NEIGHBORS)).ravel()
row_idxs(N_CELLS, N_NEIGHBORS) ==
    Ravel([i \in 1..N_CELLS |-> [r \in 1..N_NEIGHBORS |-> i - 1]])

\* sum_duplicates with the first triplet of a (row, col) kept and later ones dropped
keep_first_duplicate(entries, key, val) ==
    IF key \in DOMAIN entries THEN entries ELSE (key :> val) @@ entries

\* sum_duplicates with a later triplet replacing an earlier one
overwrite_duplicates(entries, key, val) == (key :> val) @@ entries

\* one (row, col, value) triplet entering the matrix: csr_matrix adds the
\* values of triplets that share (row, col)
sum_duplicates(entries, key, val) ==
    IF key \in DOMAIN entries
    THEN [entries EXCEPT ![key] = FAdd(@, val)]
    ELSE (key :> val) @@ entries

RECURSIVE from_triplets(_, _, _, _)
from_triplets(entries, rows, cols, vals) ==
    IF rows = <<>> THEN entries
    ELSE from_triplets(sum_duplicates(entries, <<Head(rows), Head(cols)>>, Head(vals)),
                       Tail(rows), Tail(cols), Tail(vals))

\* the stored entries of the N_CELLS x N_CELLS matrix, keyed by <<row, col>>
\* (0-based); a key that is absent is a structural zero
_to_sparse(nb, wt) ==
    LET N_CELLS == Shape0(nb)
        N_NEIGHBORS == Shape1(nb)
    IN  [shape |-> N_CELLS,
         entries |-> from_triplets(<<>>, row_idxs(N_CELLS, N_NEIGHBORS), Ravel(nb), Ravel(wt))]

\* csr_matrix refuses a column index outside 0..N_CELLS-1
SparseIndexOk(nb) ==
    \A i \in 1..Len(nb) : \A r \in 1..Len(nb[i]) : nb[i][r] \in 0..(Len(nb) - 1)

\* entry (i, j), 0-based, of a sparse matrix
Entry(sp, i, j) == IF <<i, j>> \in DOMAIN sp.entries THEN sp.entries[<<i, j>>] ELSE Zero

RECURSIVE sparse_row_dot(_, _, _, _)
sparse_row_dot(sp, i, v, j) ==
    IF j = 0 THEN Zero
    ELSE FAdd(sparse_row_dot(sp, i, v, j - 1),
              IF <<i, j - 1>> \in DOMAIN sp.entries
              THEN FMul(sp.entries[<<i, j - 1>>], v[j])
              ELSE Zero)

\* sparse_weights.dot(x.T).T : genes x cells
sparse_dot_T(sp, xv) ==
    Mat([g \in 1..Len(xv) |-> [i \in 1..sp.shape |-> sparse_row_dot(sp, i - 1, xv[g], sp.shape)]])

(* --------------------------- Getis-Ord pieces --------------------------- *)

\* (weights**2).sum(axis=1)
row_sq_sums(wt) ==
    Vec([i \in 1..Len(wt) |-> FSum([r \in 1..Len(wt[i]) |-> FMul(wt[i][r], wt[i][r])])])

\* v.mean()
mean(v) == FDiv(FSum(v), Int2F(Len(v)))

\* v.std(ddof=1)
std_ddof1(v) ==
    LET m == mean(v)
        dev == [j \in 1..Len(v) |-> FMul(FSub(v[j], m), FSub(v[j], m))]
    IN  Sqrt(FDiv(FSum(dev), Int2F(Len(v) - 1)))

\* s * ((n * S_1i - W_i**2) / (n - 1))**(1 / 2) for one variable and one sample
denom_at(s, n, S1, W) ==
    RMul(s, Sqrt(FDiv(FSub(FMul(Int2F(n), S1), FMul(W, W)), Int2F(n - 1))))

(* -------------------------- compute_gi_single --------------------------- *)

\* x[neighbors] needs every index inside the axis (a negative one wraps)
FancyIndexOk(xv, nb) ==
    \A i \in 1..Len(nb) : \A r \in 1..Len(nb[i]) : InBounds(nb[i][r], Len(xv))

\* x, neighbors, weights are plain arrays: a vector and two conforming tables
compute_gi_single(xv, nb, wt) ==
    IF ~FancyIndexOk(xv, nb)
    THEN [err |-> "IndexError", val |-> None]
    ELSE
    LET W_i  == row_sums(wt)
        S_1i == row_sq_sums(wt)
        xbar == mean(xv)
        s    == std_ddof1(xv)
        n    == Shape0(wt)
        denom  == Vec([i \in 1..n |-> denom_at(s, n, S_1i[i], W_i[i])])
        offset == Vec([i \in 1..n |-> FMul(xbar, W_i[i])])
        neighbor_xs == Mat([i \in 1..Len(nb) |->
                               [r \in 1..Len(nb[i]) |-> xv[PyIndex(nb[i][r], Len(xv)) + 1]]])
        num == Vec([i \in 1..n |->
                       FSum([r \in 1..Len(nb[i]) |-> FMul(neighbor_xs[i][r], wt[i][r])])])
        G_i == Vec([i \in 1..n |-> RDiv(F2R(FSub(num[i], offset[i])), denom[i])])
    IN  [err |-> "none", val |-> G_i]

(* ------------------------- compute_gi_dataframe ------------------------- *)

\* position (1-based) of a label in an index, 0 when it is absent
Position(index, label) ==
    IF \E p \in 1..Len(index) : index[p] = label
    THEN CHOOSE p \in 1..Len(index) : index[p] = label
    ELSE 0

HasLabels(df, labels) == \A c \in 1..Len(labels) : Position(df.index, labels[c]) # 0

\* df.loc[labels].values : the rows of df in the order of labels (a new array)
loc_values(df, labels) ==
    Mat([c \in 1..Len(labels) |-> df.values[Position(df.index, labels[c])]])

\* denom_guard left out
denom_unguarded(denom) == denom

\* denom[denom == 0] = 1.0
denom_guard(denom) ==
    Mat([g \in 1..Len(denom) |->
            [i \in 1..Len(denom[g]) |-> IF REq(denom[g][i], RFin(0, 0, 1)) THEN ROne ELSE denom[g][i]]])

\* G_i_buffer when the product is written into x's own array (dot(..., out=x))
G_i_buffer_x == "x"

\* the object the local name G_i is bound to (line 156: the new array dot() returns)
G_i_buffer == "G_i"

\* G_i -= offset
isub(G, offset) ==
    Mat([g \in 1..Len(G) |-> [i \in 1..Len(G[g]) |-> FSub(G[g][i], offset[g][i])]])

\* G_i /= denom
idiv(G, denom) ==
    Mat([g \in 1..Len(G) |-> [i \in 1..Len(G[g]) |-> RDiv(F2R(G[g][i]), denom[g][i])]])

\* shape_asserts without the check of the weight table's row count
shape_asserts_no_weights(xdf, ndf, wdf) ==
    /\ Shape1(xdf.values) = Shape0(ndf.values)
    /\ Shape1(ndf.values) = Shape1(wdf.values)

\* the three asserts of lines 127-129
shape_asserts(xdf, ndf, wdf) ==
    /\ Shape1(xdf.values) = Shape0(ndf.values)
    /\ Shape1(xdf.values) = Shape0(wdf.values)
    /\ Shape1(ndf.values) = Shape1(wdf.values)

\* x, neighbors, weights are DataFrames [index, columns, values]; the result
\* is [err, val, mem], mem holding the caller's arrays after the call
compute_gi_dataframe(xdf, ndf, wdf) ==
    LET mem == ("x" :> xdf.values) @@ ("neighbors" :> ndf.values) @@ ("weights" :> wdf.values)
        fail(e) == [err |-> e, val |-> NoFrame, mem |-> mem]
    IN
    IF ~shape_asserts(xdf, ndf, wdf)
    THEN fail("AssertionError")
    ELSE IF ~HasLabels(ndf, xdf.columns) \/ ~HasLabels(wdf, xdf.columns)
    THEN fail("KeyError")
    ELSE
    LET genes == xdf.index
        cells == xdf.columns
        nb == loc_values(ndf, xdf.columns)
        wt == loc_values(wdf, xdf.columns)
        xv == mem["x"]
        W_i  == row_sums(wt)
        S_1i == row_sq_sums(wt)
        xbar == Vec([g \in 1..Len(xv) |-> mean(xv[g])])
        s    == Vec([g \in 1..Len(xv) |-> std_ddof1(xv[g])])
        n    == Shape1(xv)
        offset == Mat([g \in 1..Len(xv) |-> [i \in 1..n |-> FMul(xbar[g], W_i[i])]])
        m1 == Store(mem, "denom",
                    Mat([g \in 1..Len(xv) |-> [i \in 1..n |-> denom_at(s[g], n, S_1i[i], W_i[i])]]))
        m2 == Store(m1, "denom", denom_guard(m1["denom"]))
    IN
    IF ~SparseIndexOk(nb)
    THEN fail("ValueError")
    ELSE
    LET sparse_weights == _to_sparse(nb, wt)
        m3 == Store(m2, G_i_buffer, sparse_dot_T(sparse_weights, m2["x"]))
        m4 == Store(m3, G_i_buffer, isub(m3[G_i_buffer], offset))
        m5 == Store(m4, G_i_buffer, idiv(m4[G_i_buffer], m4["denom"]))
    IN  [err |-> "none",
         val |-> [index |-> genes, columns |-> cells, values |-> m5[G_i_buffer]],
         mem |-> m5]

(* ------------------------- neighbors_and_weights ------------------------ *)

\* Euclidean distance between two rows of data.  Points have one feature
\* (samples on a line), so the distance is |p - q| and stays an integer.
euclidean(p, q) == Abs(p[1] - q[1])

\* all orderings of m distinct positions out of 0..n-1
Arrangements(n, m) ==
    {a \in [1..m -> 0..(n - 1)] : \A u, v \in 1..m : u # v => a[u] # a[v]}

\* What NearestNeighbors(n_neighbors=m).kneighbors may return for sample i
\* (1-based): m distinct positions in ascending distance, none farther than a
\* position left out.  The order among equidistant points is the oracle's.
kneighbors_rows(coords, i, m) ==
    {a \in Arrangements(Len(coords), m) :
        /\ \A u \in 1..(m - 1) :
              euclidean(coords[i], coords[a[u] + 1]) <= euclidean(coords[i], coords[a[u + 1] + 1])
        /\ \A j \in 0..(Len(coords) - 1) :
              (\A u \in 1..m : a[u] # j) =>
                  euclidean(coords[i], coords[j + 1]) >= euclidean(coords[i], coords[a[m] + 1])}

\* the row an oracle that breaks ties by position returns: the m positions
\* that come first when sorted by (distance, position)
stable_row(coords, i, m) ==
    LET before(j, h) ==
            \/ euclidean(coords[i], coords[j + 1]) < euclidean(coords[i], coords[h + 1])
            \/ /\ euclidean(coords[i], coords[j + 1]) = euclidean(coords[i], coords[h + 1])
               /\ j < h
        rank(h) == Cardinality({j \in 0..(Len(coords) - 1) : before(j, h)})
    IN  Vec([u \in 1..m |-> CHOOSE h \in 0..(Len(coords) - 1) : rank(h) = u - 1])

\* the whole answer of the oracle that breaks ties by position
stable_ind(coords, m) == Mat([i \in 1..Len(coords) |-> stable_row(coords, i, m)])

\* The answers of the oracle that are modelled: ties are broken by position,
\* except that in one row the first two hits may come in either order when
\* they are equidistant.
kneighbors(coords, m) ==
    LET stable == stable_ind(coords, m)
    IN  UNION {{[stable EXCEPT ![free] = row] :
                   row \in {a \in kneighbors_rows(coords, free, m) :
                               \A u \in 3..m : a[u] = stable[free][u]}} :
               free \in 1..Len(coords)}

\* the distances of the hits ind
distances_of(coords, ind) ==
    Mat([i \in 1..Len(ind) |->
            [u \in 1..Len(ind[i]) |-> Int2F(euclidean(coords[i], coords[ind[i][u] + 1]))]])

\* dist[:, 1:] and ind[:, 1:]
drop_first(m) == Mat([i \in 1..Len(m) |-> Tail(m[i])])

\* The call, given the oracle's answer ind (positions, one row per sample);
\* dist is the distance of each hit.  The result is [err, val] with
\* val = [neighbors, weights] DataFrames.
neighbors_and_weights(dataf, ind, neighborhood_factor) ==
    LET coords == dataf.values
        dist == distances_of(coords, ind)
        dist1 == drop_first(dist)
        ind1 == drop_first(ind)
        w == compute_weights(dist1, neighborhood_factor)
    IN  IF w.err # "none"
        THEN [err |-> w.err, val |-> None]
        ELSE [err |-> "none",
              val |-> [neighbors |-> Frame(dataf.index, Labels(Shape1(ind1)), ind1),
                       weights |-> Frame(dataf.index, Labels(Shape1(ind1)), w.val)]]

(* ------------------------------ gi_to_pval ------------------------------ *)

\* norm.sf(|g|) * 2 : the survival function is the external evaluator; its
\* value is kept as the term 2*sf(|g|)
gi_to_pval(G) ==
    [index |-> G.index, columns |-> G.columns,
     values |-> Mat([g \in 1..Len(G.values) |->
                        [i \in 1..Len(G.values[g]) |-> [two_sf_of |-> RAbs(G.values[g][i])]]])]

(* ------------------------------- state ---------------------------------- *)

VARIABLES
    distances,            \* ndarray handed to compute_weights
    neighborhood_factor,  \* float
    data,                 \* DataFrame handed to neighbors_and_weights
    n_neighbors,          \* int
    x,                    \* DataFrame genes x cells
    neighbors,            \* DataFrame cells x n_neighbors of positions
    weights,              \* DataFrame cells x n_neighbors of floats
    ret                   \* the last call: [op, err, val], sigma for compute_weights,
                          \* and arg, what the call was given besides the variables
                          \* (the oracle's answer; the frame handed to gi_to_pval)

vars == <<distances, neighborhood_factor, data, n_neighbors, x, neighbors, weights, ret>>

NoCall == [op |-> "none", err |-> "none", val |-> None, sigma |-> None, arg |-> None]

Factors == {Fin(a, b) : a \in 1..MaxFactor, b \in 1..2}

\* rows of non-negative distances sorted ascending, as the oracle returns them
SortedRows(k) == {r \in [1..k -> 0..MaxDist] : \A j \in 1..(k - 1) : r[j] <= r[j + 1]}

ToFloats(m) ==
    Mat([i \in 1..Len(m) |-> [r \in 1..Len(m[i]) |-> Int2F(m[i][r])]])

(* A caller of compute_weights alone: a sorted distance matrix and a factor. *)
InitW ==
    /\ \E k \in 1..NNeighbors : \E m \in [1..NRows -> SortedRows(k)] :
           distances = ToFloats(m)
    /\ neighborhood_factor \in Factors
    /\ data = NoFrame /\ n_neighbors = 0
    /\ x = NoFrame /\ neighbors = NoFrame /\ weights = NoFrame
    /\ ret = NoCall

ComputeWeights ==
    /\ distances # None
    /\ \E d \in {distances} : \E f \in {neighborhood_factor} :
       \E r \in {compute_weights(d, f)} :
           /\ ret' = [op |-> "compute_weights", err |-> r.err, val |-> r.val,
                       sigma |-> IF r.err = "none" THEN r.mem["sigma"] ELSE None,
                       arg |-> None]
           /\ distances' = r.mem["distances"]
    /\ UNCHANGED <<neighborhood_factor, data, n_neighbors, x, neighbors, weights>>

NextW == ComputeWeights

SpecW == InitW /\ [][NextW]_vars

(* A caller of the Getis-Ord functions with tables of its own: one variable  *)
(* over NCells samples, 1 on a free subset of the samples and 0 on the rest  *)
(* (G_i does not change when x is scaled or shifted), and NNeighbors         *)
(* columns.  Row i of the neighbor table is i                                *)
(* shifted by a free offset per column (offset 0 is a self-loop, equal       *)
(* offsets are a repeated neighbor); row i of the weight table is a free     *)
(* pattern rotated by i, and the first row may be all zero.  Offsets and     *)
(* pattern are listed in ascending order: the functions sum over columns, so *)
(* permuting the columns of both tables alike changes nothing.  The tables   *)
(* are                                                                       *)
(* narrower than the sample count, as every table neighbors_and_weights      *)
(* returns is (the oracle needs n_neighbors + 1 <= samples).                 *)
OffsetTable(off) ==
    Mat([i \in 1..NCells |-> [r \in 1..Len(off) |-> ((i - 1) + off[r]) % NCells]])

PatternTable(w, zero_first) ==
    Mat([i \in 1..NCells |->
            [r \in 1..Len(w) |->
                IF zero_first /\ i = 1 THEN Zero ELSE Int2F(w[((r - 1 + i) % Len(w)) + 1])]])

Monotone(f) == \A r \in 1..(Len(f) - 1) : f[r] <= f[r + 1]

InitG ==
    /\ NNeighbors < NCells
    /\ \E on \in SUBSET (1..NCells) :
       \E v \in {[c \in 1..NCells |-> IF c \in on THEN 1 ELSE 0]} :
           x = Frame(<<"gene">>, Labels(NCells), ToFloats(<<v>>))
    /\ \E off \in {o \in [1..NNeighbors -> 0..(NCells - 1)] : Monotone(o)} :
           neighbors = Frame(Labels(NCells), Labels(NNeighbors), OffsetTable(off))
    /\ \E w \in {u \in [1..NNeighbors -> 0..MaxWeight] : Monotone(u)} : \E z \in BOOLEAN :
           weights = Frame(Labels(NCells), Labels(NNeighbors), PatternTable(w, z))
    /\ distances = None /\ neighborhood_factor = One
    /\ data = NoFrame /\ n_neighbors = 0
    /\ ret = NoCall

Call(op, err, val) == [op |-> op, err |-> err, val |-> val, sigma |-> None, arg |-> None]

\* compute_gi_single on the first variable and the tables' arrays
GiSingle ==
    /\ x # NoFrame /\ neighbors # NoFrame
    /\ Shape0(neighbors.values) = Shape0(weights.values)
    /\ Shape1(neighbors.values) = Shape1(weights.values)
    /\ \E xv \in {x.values[1]} : \E nb \in {neighbors.values} : \E wt \in {weights.values} :
       \E r \in {compute_gi_single(xv, nb, wt)} :
           ret' = Call("compute_gi_single", r.err, r.val)
    /\ UNCHANGED <<distances, neighborhood_factor, data, n_neighbors, x, neighbors, weights>>

GiDataframe ==
    /\ x # NoFrame /\ neighbors # NoFrame
    /\ \E xdf \in {x} : \E ndf \in {neighbors} : \E wdf \in {weights} :
       \E r \in {compute_gi_dataframe(xdf, ndf, wdf)} :
           /\ ret' = Call("compute_gi_dataframe", r.err, r.val)
           /\ x' = [x EXCEPT !.values = r.mem["x"]]
           /\ neighbors' = [neighbors EXCEPT !.values = r.mem["neighbors"]]
           /\ weights' = [weights EXCEPT !.values = r.mem["weights"]]
    /\ UNCHANGED <<distances, neighborhood_factor, data, n_neighbors>>

\* gi_to_pval on the frame compute_gi_dataframe just returned, or once more
\* on the same frame
GiToPval ==
    /\ \/ ret.op = "compute_gi_dataframe" /\ ret.err = "none"
       \/ ret.op = "gi_to_pval"
    /\ \E G \in {IF ret.op = "gi_to_pval" THEN ret.arg ELSE ret.val} :
           ret' = [Call("gi_to_pval", "none", gi_to_pval(G)) EXCEPT !.arg = G]
    /\ UNCHANGED <<distances, neighborhood_factor, data, n_neighbors, x, neighbors, weights>>

\* _to_sparse on the tables' arrays
ToSparse ==
    /\ neighbors # NoFrame
    /\ Shape0(neighbors.values) = Shape0(weights.values)
    /\ Shape1(neighbors.values) = Shape1(weights.values)
    /\ SparseIndexOk(neighbors.values)
    /\ \E nb \in {neighbors.values} : \E wt \in {weights.values} :
           ret' = Call("_to_sparse", "none", _to_sparse(nb, wt))
    /\ UNCHANGED <<distances, neighborhood_factor, data, n_neighbors, x, neighbors, weights>>

NextG == GiSingle \/ GiDataframe \/ GiToPval \/ ToSparse

SpecG == InitG /\ [][NextG]_vars

(* A caller of compute_gi_dataframe whose three arguments need not conform: *)
(* the column count of x, the row counts and the widths of the two tables    *)
(* are chosen independently.  Every table is labelled 0.. in its own order.  *)
Sizes(n) == {m \in {n - 1, n} : m >= 1}

ShapedNeighbors(rows, cols) ==
    Mat([i \in 1..rows |-> [r \in 1..cols |-> (i + r - 1) % rows]])

ShapedWeights(rows, cols) ==
    Mat([i \in 1..rows |-> [r \in 1..cols |-> Int2F(1 + ((i + r) % 2))]])

InitShape ==
    /\ \E nx \in Sizes(NCells) : \E v \in [1..nx -> 0..MaxVal] :
           x = Frame(<<"gene">>, Labels(nx), ToFloats(<<v>>))
    /\ \E nn \in Sizes(NCells) : \E kn \in Sizes(NNeighbors) :
           neighbors = Frame(Labels(nn), Labels(kn), ShapedNeighbors(nn, kn))
    /\ \E nw \in Sizes(NCells) : \E kw \in Sizes(NNeighbors) :
           weights = Frame(Labels(nw), Labels(kw), ShapedWeights(nw, kw))
    /\ distances = None /\ neighborhood_factor = One
    /\ data = NoFrame /\ n_neighbors = 0
    /\ ret = NoCall

NextShape == GiDataframe

SpecShape == InitShape /\ [][NextShape]_vars

(* The pipeline: NCells points on a line at positions 0..MaxDist, the first *)
(* at 0 (distances depend on differences of positions only), labelled       *)
(* 0.. in order; the tables come from neighbors_and_weights with the default *)
(* factor; x is the indicator variable of one sample, its columns either in  *)
(* the order of data or rotated by one.  distances holds what the caller's   *)
(* own query returned for the same points.                                   *)
Rotate(seq, sh) == Vec([c \in 1..Len(seq) |-> seq[((c - 1 + sh) % Len(seq)) + 1]])

Indicator(labels, hot) == Vec([c \in 1..Len(labels) |-> IF labels[c] = hot THEN One ELSE Zero])

InitN ==
    /\ \E pos \in {p \in [1..NCells -> 0..MaxDist] : p[1] = 0} :
       \E coords \in {Mat([i \in 1..NCells |-> <<pos[i]>>])} :
           /\ data = Frame(Labels(NCells), <<"position">>, coords)
           /\ \E k \in 1..(NNeighbors + 1) :
                 /\ n_neighbors = k
                 /\ distances = IF k + 1 <= NCells
                                THEN drop_first(distances_of(coords, stable_ind(coords, k + 1)))
                                ELSE None
    /\ neighborhood_factor = Int2F(DefaultFactor)
    /\ \E sh \in 0..1 : \E hot \in 0..(NCells - 1) :
           x = Frame(<<"gene">>, Rotate(Labels(NCells), sh),
                     <<Indicator(Rotate(Labels(NCells), sh), hot)>>)
    /\ neighbors = NoFrame /\ weights = NoFrame
    /\ ret = NoCall

\* neighbors, weights = neighbors_and_weights(data, n_neighbors, neighborhood_factor).
\* The tables are built once per point set; a call that directly follows a
\* call gets from the oracle the answer it gave before.
NeighborsAndWeights ==
    /\ data # NoFrame
    /\ neighbors = NoFrame \/ ret.op = "neighbors_and_weights"
    /\ IF n_neighbors + 1 > Len(data.values)
       THEN /\ ret' = Call("neighbors_and_weights", "ValueError", None)
            /\ UNCHANGED <<neighbors, weights>>
       ELSE \E dataf \in {data} : \E m \in {n_neighbors + 1} : \E f \in {neighborhood_factor} :
            \E ind \in (IF ret.op = "neighbors_and_weights"
                        THEN {ret.arg}
                        ELSE kneighbors(dataf.values, m)) :
            \E r \in {neighbors_and_weights(dataf, ind, f)} :
               /\ ret' = [Call("neighbors_and_weights", r.err, r.val) EXCEPT !.arg = ind]
               /\ IF r.err = "none"
                  THEN neighbors' = r.val.neighbors /\ weights' = r.val.weights
                  ELSE UNCHANGED <<neighbors, weights>>
    /\ UNCHANGED <<distances, neighborhood_factor, data, n_neighbors, x>>

NextN == NeighborsAndWeights \/ ComputeWeights \/ GiSingle \/ GiDataframe \/ GiToPval

SpecN == InitN /\ [][NextN]_vars

(* ------------------------- claims: compute_weights ---------------------- *)

HasNaN(row) == \E r \in 1..Len(row) : row[r].k = "nan"

\* C3 (as claimed): every row of the compute_weights output sums to 1, except
\* the rows whose bandwidth sigma is 0, which sum to 0; no row holds a
\* non-number.
C3_RowSums ==
    (ret.op = "compute_weights" /\ ret.err = "none") =>
        \A i \in 1..Len(ret.val) :
            /\ ~HasNaN(ret.val[i])
            /\ IF ret.sigma[i] = Zero
               THEN FSum(ret.val[i]) = Zero
               ELSE FSum(ret.val[i]) = One

\* C7 (as claimed): for every n_neighbors >= 1 and neighborhood_factor > 0 the
\* call does not fail, radius_ii is a rank in 1..n_neighbors and sigma is the
\* column radius_ii - 1 of the distances.
C7_NoFailure ==
    ret.op = "compute_weights" =>
        LET k == Shape1(distances)
            rii == Ceil(FDiv(Int2F(k), neighborhood_factor))
        IN  /\ ret.err = "none"
            /\ rii \in 1..k
            /\ ret.sigma = Col(distances, rii - 1)

\* C7 (amended): the same for every neighborhood_factor >= 1; for a factor
\* strictly between 0 and 1 the rank exceeds n_neighbors and the call raises
\* IndexError.
C7_FactorAtLeastOne ==
    ret.op = "compute_weights" =>
        LET k == Shape1(distances)
            rii == Ceil(FDiv(Int2F(k), neighborhood_factor))
        IN  IF neighborhood_factor.n >= neighborhood_factor.d
            THEN /\ ret.err = "none"
                 /\ rii \in 1..k
                 /\ ret.sigma = Col(distances, rii - 1)
            ELSE /\ ret.err = "IndexError"
                 /\ rii > k

\* a call with the default factor 3 on two columns: the rank is 1, not 2
C7_Witness ==
    /\ ret.op = "compute_weights" /\ ret.err = "none"
    /\ neighborhood_factor = Int2F(3) /\ Shape1(distances) = 2
    /\ ret.sigma = Col(distances, 0)
    /\ \E i \in 1..Len(distances) : distances[i][1] # distances[i][2]

(* --------------------------- claims: Getis-Ord --------------------------- *)

RZero == RFin(0, 0, 1)

\* the variable, the tables and the sample count of the current call
TheX == x.values[1]

NB == neighbors.values

WT == weights.values

\* the denominator s * sqrt((n*S1_i - W_i^2)/(n-1)) of sample i (1-based)
Denominator(i) ==
    denom_at(std_ddof1(TheX), Len(TheX), row_sq_sums(WT)[i], row_sums(WT)[i])

\* the weighted neighbor sum minus xbar * W_i of sample i, from the tables
Numerator(i) ==
    FSub(FSum([r \in 1..Len(NB[i]) |-> FMul(WT[i][r], TheX[NB[i][r] + 1])]),
         FMul(mean(TheX), FSum(WT[i])))

Aligned == x.columns = neighbors.index /\ x.columns = weights.index

DataframeDone == ret.op = "compute_gi_dataframe" /\ ret.err = "none"

SingleDone == ret.op = "compute_gi_single" /\ ret.err = "none"

\* C1: on a 1 x n matrix and tables aligned to its columns, compute_gi_dataframe
\* returns at every sample whose denominator is not zero the value that
\* compute_gi_single returns there.
C1_BatchedEqualsSingle ==
    (DataframeDone /\ Aligned) =>
        \A single \in {compute_gi_single(TheX, NB, WT)} :
        \A i \in 1..Len(TheX) :
            Denominator(i) # RZero =>
                single.err = "none" /\ ret.val.values[1][i] = single.val[i]

\* a batched call on a row with a repeated neighbor, a non-zero denominator
\* and a non-zero statistic
C1_Witness ==
    /\ DataframeDone /\ Aligned
    /\ \E i \in 1..Len(TheX) :
          /\ Denominator(i) # RZero
          /\ NB[i][1] = NB[i][2] /\ WT[i][1] # Zero /\ WT[i][2] # Zero
          /\ ret.val.values[1][i].k = "fin" /\ ret.val.values[1][i].s # 0

\* C2: for a variable whose sample standard deviation is 0, the batched form
\* returns the finite value num - offset at every sample and the
\* single-variable form returns a non-finite value at every sample.
C2_ZeroDenominatorAsymmetry ==
    (Aligned /\ std_ddof1(TheX) = RZero) =>
        /\ DataframeDone =>
              \A i \in 1..Len(TheX) :
                  /\ ret.val.values[1][i].k = "fin"
                  /\ ret.val.values[1][i] = F2R(Numerator(i))
        /\ SingleDone =>
              \A i \in 1..Len(TheX) : ret.val[i].k \in {"nan", "inf"}

\* a batched call on a constant, non-zero variable with non-zero weights
C2_Witness ==
    /\ DataframeDone /\ Aligned
    /\ std_ddof1(TheX) = RZero /\ TheX[1] # Zero
    /\ \E i \in 1..Len(TheX) : FSum(WT[i]) # Zero
    /\ \A i \in 1..Len(TheX) : ret.val.values[1][i].k = "fin"

(* --------------------------- claims: _to_sparse -------------------------- *)

SparseDone == ret.op = "_to_sparse" /\ ret.err = "none"

DistinctPerRow == \A i \in 1..Len(NB) : \A r, q \in 1..Len(NB[i]) : r # q => NB[i][r] # NB[i][q]

\* the (column, value) pairs of the entries of row i (1-based) that are not 0
NonzeroEntries(sp, i) ==
    {<<j, Entry(sp, i - 1, j)>> : j \in {c \in 0..(sp.shape - 1) : Entry(sp, i - 1, c) # Zero}}

TablePairs(i) == {<<NB[i][r], WT[i][r]>> : r \in 1..Len(NB[i])}

\* C6 (as claimed): with distinct neighbors per row, the nonzero entries of row
\* i of the sparse matrix are exactly the (neighbor, weight) pairs of row i of
\* the tables, also when a weight is exactly 0.
C6_RoundTrip ==
    (SparseDone /\ DistinctPerRow) =>
        \A i \in 1..Len(NB) : NonzeroEntries(ret.val, i) = TablePairs(i)

\* C6 (amended): they are exactly the pairs of row i whose weight is not 0.
C6_RoundTripNonzero ==
    (SparseDone /\ DistinctPerRow) =>
        \A i \in 1..Len(NB) :
            NonzeroEntries(ret.val, i) = {p \in TablePairs(i) : p[2] # Zero}

\* a matrix built from rows of distinct neighbors with two different non-zero
\* weights in one row and a zero weight in another
C6_Witness ==
    /\ SparseDone /\ DistinctPerRow /\ Len(NB[1]) >= 2
    /\ \E i \in 1..Len(NB) : WT[i][1] # Zero /\ WT[i][2] # Zero /\ WT[i][1] # WT[i][2]
    /\ \E i \in 1..Len(NB) : \E r \in 1..Len(NB[i]) : WT[i][r] = Zero

\* C8: entry (i, j) of the sparse matrix is the sum of the weights of all the
\* triplets (i, neighbors[i, r], weights[i, r]) with neighbors[i, r] = j, so
\* every row of the matrix sums to the row sum W_i of the weight table.
C8_DuplicatesSummed ==
    SparseDone =>
        \A i \in 1..Len(NB) :
            /\ \A j \in 0..(Len(NB) - 1) :
                  Entry(ret.val, i - 1, j) =
                      FSum([r \in 1..Len(NB[i]) |-> IF NB[i][r] = j THEN WT[i][r] ELSE Zero])
            /\ FSum([c \in 1..Len(NB) |-> Entry(ret.val, i - 1, c - 1)]) = row_sums(WT)[i]

\* a matrix built from a row that names one neighbor twice with non-zero weights
C8_Witness ==
    /\ SparseDone
    /\ \E i \in 1..Len(NB) :
          /\ NB[i][1] = NB[i][2] /\ WT[i][1] # Zero /\ WT[i][2] # Zero
          /\ Entry(ret.val, i - 1, NB[i][1]) = FAdd(WT[i][1], WT[i][2])

(* ------------------------ claims: shape mismatch ------------------------ *)

ShapeMismatch ==
    \/ Shape1(x.values) # Shape0(neighbors.values)
    \/ Shape1(x.values) # Shape0(weights.values)
    \/ Shape1(neighbors.values) # Shape1(weights.values)

\* C5: a call of compute_gi_dataframe whose arguments disagree in a sample
\* count or in the table width ends at the asserts: it raises AssertionError,
\* returns no frame and leaves x, neighbors and weights as they were.
C5_FailFast ==
    [][(ret'.op = "compute_gi_dataframe" /\ ret' # ret /\ ShapeMismatch) =>
          /\ ret'.err = "AssertionError"
          /\ ret'.val = NoFrame
          /\ x' = x /\ neighbors' = neighbors /\ weights' = weights]_vars

\* a call refused because only the weight table has a different row count
C5_Witness ==
    /\ ret.op = "compute_gi_dataframe" /\ ret.err = "AssertionError"
    /\ Shape1(x.values) = Shape0(neighbors.values)
    /\ Shape1(neighbors.values) = Shape1(weights.values)
    /\ Shape0(weights.values) > Shape1(x.values)

(* --------------------------- claims: pipeline --------------------------- *)

BuilderDone == ret.op = "neighbors_and_weights" /\ ret.err = "none"

\* C4 (as claimed): the neighbor table neighbors_and_weights returns has no
\* self-loop, neighbors[i, r] # i for every sample i and rank r, whatever the
\* points and the oracle's order among equidistant hits, and the diagonal of
\* the sparse matrix built from the tables holds no entry.
C4_NoSelfLoops ==
    BuilderDone =>
        \A nb \in {ret.val.neighbors.values} : \A sp \in {_to_sparse(nb, ret.val.weights.values)} :
        \A i \in 1..Len(nb) :
            /\ \A r \in 1..Len(nb[i]) : nb[i][r] # i - 1
            /\ <<i - 1, i - 1>> \notin DOMAIN sp.entries

\* X with its columns put in the order of labels, every label keeping its data
Reordered(xdf, labels) ==
    Frame(xdf.index, labels,
          Mat([g \in 1..Len(xdf.values) |->
                  [c \in 1..Len(labels) |-> xdf.values[g][Position(xdf.columns, labels[c])]]]))

\* C10 (as claimed): with the tables neighbors_and_weights returned held
\* fixed, compute_gi_dataframe gives every (variable, sample label) pair the
\* statistic it gives it when the columns of X are in the order of data.
C10_ColumnOrderIndependent ==
    (DataframeDone /\ data # NoFrame) =>
        \A ref \in {compute_gi_dataframe(Reordered(x, data.index), neighbors, weights)} :
            /\ ref.err = "none"
            /\ \A g \in 1..Len(ret.val.index) : \A c \in 1..Len(ret.val.columns) :
                  ret.val.values[g][c] =
                      ref.val.values[g][Position(ref.val.columns, ret.val.columns[c])]

Operations ==
    {"compute_weights", "neighbors_and_weights", "compute_gi_single",
     "compute_gi_dataframe", "gi_to_pval"}

\* C9: every step of the pipeline is a call of one of the five operations; it
\* leaves the caller's arrays and tables as they were (data, n_neighbors,
\* neighborhood_factor, distances, x, the frame handed to gi_to_pval, and the
\* tables once they are built), and a call that repeats the previous call, the
\* oracle answering as before, returns what the previous call returned.
C9_SideEffectFree ==
    [][/\ ret'.op \in Operations
       /\ data' = data /\ n_neighbors' = n_neighbors
       /\ neighborhood_factor' = neighborhood_factor
       /\ distances' = distances
       /\ x' = x
       /\ neighbors # NoFrame => (neighbors' = neighbors /\ weights' = weights)
       /\ ret'.op = "gi_to_pval" =>
              ret'.arg = (IF ret.op = "gi_to_pval" THEN ret.arg ELSE ret.val)
       /\ ret'.op = ret.op => ret' = ret]_vars

\* a batched call on tables built by neighbors_and_weights that went through
\* both in-place steps (a non-zero offset was subtracted, a denominator other
\* than 1 divided) and returned a finite non-zero statistic
C9_Witness ==
    /\ DataframeDone /\ data # NoFrame
    /\ \E i \in 1..Len(TheX) :
          /\ FMul(mean(TheX), FSum(WT[i])) # Zero
          /\ Denominator(i) # ROne /\ Denominator(i).k = "fin"
          /\ ret.val.values[1][i].k = "fin" /\ ret.val.values[1][i].s # 0

=============================================================================
